---- MODULE Spec2Model ----
(***************************************************************************)
(* A model of the FSRS scheduler of src/Python/fsrs.py: Scheduler          *)
(* construction (weight validation and normalisation), the memory model    *)
(* (stability, difficulty, retrievability), the interval calculator, the   *)
(* fuzz generator and the card state machine driven by review_card.        *)
(*                                                                         *)
(* Representation of numbers.  A Python float is modelled as a fixed-point *)
(* integer: the float x is the integer round(x * SCALE).  math.exp and the *)
(* float power operator are computed by range reduction and a truncated    *)
(* series on these integers.  Fixed point covers the floats of magnitude   *)
(* below 2^30 / SCALE.  Beyond it the model has inf, -inf, NaN and the     *)
(* finite floats of magnitude 1e300 and more (in units of 1e304 / SCALE),  *)
(* with the IEEE rules for them: they enter through a weight of that       *)
(* magnitude and reach the stability of a card.  The model covers the      *)
(* weights, ratings and elapsed times whose other intermediate values stay *)
(* within fixed point.                                                     *)
(*                                                                         *)
(* A datetime.timedelta is modelled by its own normalised representation:  *)
(* a record [days, seconds, microseconds] with 0 <= seconds < 86400 and    *)
(* 0 <= microseconds < 1000000.                                            *)
(***************************************************************************)
EXTENDS Integers, Sequences, FiniteSets, TLC

(***************************************************************************)
(* Fixed-point arithmetic standing for Python float arithmetic.            *)
(***************************************************************************)

\* One unit of the float 1.0.
SCALE == 10000

Abs(x) == IF x < 0 THEN -x ELSE x

Sgn(x) == IF x < 0 THEN -1 ELSE 1

Max(a, b) == IF a >= b THEN a ELSE b

Min(a, b) == IF a <= b THEN a ELSE b

\* a * b for non-negative fixed-point a, b, rounded to the nearest unit.  The
\* operands are split so that no intermediate product leaves 32 bits.
MulMag(a, b) ==
    LET ah == a \div SCALE
        al == a % SCALE
        bh == b \div SCALE
        bl == b % SCALE
    IN  ah * bh * SCALE + ah * bl + al * bh + (al * bl + SCALE \div 2) \div SCALE

\* Float multiplication a * b.
FMul(a, b) == Sgn(a) * Sgn(b) * MulMag(Abs(a), Abs(b))

\* n further decimal digits of r / b (0 <= r < b), most significant first.
RECURSIVE DivDigits(_, _, _)
DivDigits(r, b, n) ==
    IF n = 0 THEN IF 2 * r >= b THEN 1 ELSE 0
    ELSE ((r * 10) \div b) * 10 ^ (n - 1) + DivDigits((r * 10) % b, b, n - 1)

\* a / b for non-negative a and positive b, rounded to the nearest unit.
DivMag(a, b) == (a \div b) * SCALE + DivDigits(a % b, b, 4)

\* Float division a / b (b # 0; Python raises ZeroDivisionError on b = 0, which
\* the callers test before dividing).
FDiv(a, b) == Sgn(a) * Sgn(b) * DivMag(Abs(a), Abs(b))

\* The float of an integer.
FInt(n) == n * SCALE

\* The finer unit in which math.exp, math.log and ** work internally.
FINE == 100 * SCALE

\* ln 2 in FINE units.
LN2 == 693147

\* a * b in FINE units for 0 <= a, b <= 2.0, truncated.
MulFine(a, b) ==
    LET ah == a \div 1000
        al == a % 1000
        bh == b \div 1000
        bl == b % 1000
    IN  ah * bh + (ah * bl + al * bh + (al * bl) \div 1000) \div 1000

\* The terms r^k / k! of exp(r) from term = r^(k-1) / (k-1)! on, in FINE units.
RECURSIVE ExpTerms(_, _, _)
ExpTerms(r, term, k) ==
    IF term = 0 THEN 0
    ELSE term + ExpTerms(r, MulFine(term, r) \div k, k + 1)

RECURSIVE Pow2Mul(_, _)
Pow2Mul(x, k) == IF k = 0 THEN x ELSE Pow2Mul(2 * x, k - 1)

RECURSIVE Pow2Div(_, _)
Pow2Div(x, k) == IF k = 0 \/ x = 0 THEN x ELSE Pow2Div(x \div 2, k - 1)

\* exp of an argument x given in FINE units, as a float: x = k ln 2 + r with
\* 0 <= r < ln 2 and exp(x) = 2^k exp(r).
ExpFine(x) ==
    LET k == IF x >= 0 THEN x \div LN2 ELSE -((-x + LN2 - 1) \div LN2)
        r == x - k * LN2
        er == FINE + ExpTerms(r, r, 2)
    IN  IF k >= 6 THEN Pow2Mul((er * 64 + 50) \div 100, k - 6)
        ELSE IF k >= 0 THEN (Pow2Mul(er, k) + 50) \div 100
        ELSE (Pow2Div(er, -k) + 50) \div 100

\* math.exp(x).
Exp(x) == ExpFine(100 * x)

\* The exponent k with 2^k <= x < 2^(k+1), for a float x > 0.
RECURSIVE Ilogb(_, _)
Ilogb(x, k) ==
    IF x >= 2 * SCALE THEN Ilogb(x \div 2, k + 1)
    ELSE IF x < SCALE THEN Ilogb(2 * x, k - 1)
    ELSE k

\* n further decimal digits of r / b (0 <= r < b).
RECURSIVE FracDigits(_, _, _)
FracDigits(r, b, n) ==
    IF n = 0 THEN 0
    ELSE ((r * 10) \div b) * 10 ^ (n - 1) + FracDigits((r * 10) % b, b, n - 1)

\* z + z^3/3 + z^5/5 + ... from the odd power zk = z^k on, in FINE units.
RECURSIVE LnTerms(_, _, _)
LnTerms(z2, zk, k) ==
    IF zk = 0 THEN 0
    ELSE zk \div k + LnTerms(z2, MulFine(zk, z2), k + 2)

\* ln x in FINE units for a float x > 0: x = m 2^k with 1 <= m < 2 and
\* ln x = k ln 2 + 2 atanh((m - 1) / (m + 1)).
LnFine(x) ==
    LET k == Ilogb(x, 0)
        m == IF k >= 0
             THEN (x \div 2 ^ k) * 100 + ((x % 2 ^ k) * 100) \div 2 ^ k
             ELSE Pow2Mul(x, -k) * 100
        z == FracDigits(m - FINE, m + FINE, 6)
    IN  k * LN2 + 2 * LnTerms(MulFine(z, z), z, 1)

\* math.log(x) for x > 0.
Ln(x) == LET l == LnFine(x) IN Sgn(l) * ((Abs(l) + 50) \div 100)

\* The float power x ** y for a positive base x.
Pow(x, y) == ExpFine(FMul(y, LnFine(x)))

\* round(x) of Python 3 on a float: to the nearest integer, ties to even.
Round(x) ==
    LET f == IF x >= 0 THEN x \div SCALE ELSE -((-x + SCALE - 1) \div SCALE)
        r == x - f * SCALE
    IN  IF 2 * r > SCALE THEN f + 1
        ELSE IF 2 * r < SCALE THEN f
        ELSE IF f % 2 = 0 THEN f ELSE f + 1

(***************************************************************************)
(* Floats beyond fixed point, and an exception raised while an expression  *)
(* is evaluated.  Each is an integer outside the fixed-point range.  An    *)
(* exception stands for "this operand raised": every operation passes its  *)
(* first such operand on, as Python evaluates operands left to right.      *)
(***************************************************************************)

\* Fixed point ends below this magnitude.
BIG0 == 2 ^ 30

\* float('nan'); float('inf') (-INF is float('-inf')).
NAN == BIG0 + (BIG0 - 1)
INF == BIG0 + (BIG0 - 2)

OverflowError == BIG0 + (BIG0 - 3)
ZeroDivisionError == BIG0 + (BIG0 - 4)
ValueError == BIG0 + (BIG0 - 5)

\* sys.float_info.max, 1.7976931348623157e308, in units of 1e304 / SCALE.
DBL_MAX == FInt(17976) + (9313 * SCALE) \div 10000

\* The finite float v * 1e304 / SCALE (0 < v <= DBL_MAX).
Big(v) == BIG0 + v

IsExc(x) == x \in {OverflowError, ZeroDivisionError, ValueError}

IsNaN(x) == x = NAN

IsInf(x) == Abs(x) = INF

IsBig(x) == Abs(x) > BIG0 /\ Abs(x) <= BIG0 + DBL_MAX

BigVal(x) == Abs(x) - BIG0

ExcName(x) ==
    CASE x = OverflowError -> "OverflowError"
      [] x = ZeroDivisionError -> "ZeroDivisionError"
      [] x = ValueError -> "ValueError"

\* The float of magnitude v * 1e304 / SCALE and sign sg: inf beyond DBL_MAX.
\* Magnitudes between fixed point and 1e300 are not represented.
BigOrInf(sg, v) == IF v > DBL_MAX THEN sg * INF ELSE sg * Big(Max(v, 1))

\* a * b on floats.
XMul(a, b) ==
    IF IsExc(a) THEN a
    ELSE IF IsExc(b) THEN b
    ELSE IF IsNaN(a) \/ IsNaN(b) THEN NAN
    ELSE IF IsInf(a) \/ IsInf(b)
    THEN IF a = 0 \/ b = 0 THEN NAN ELSE Sgn(a) * Sgn(b) * INF
    ELSE IF IsBig(a) /\ IsBig(b) THEN Sgn(a) * Sgn(b) * INF
    ELSE IF IsBig(a)
    THEN IF b = 0 THEN 0 ELSE BigOrInf(Sgn(a) * Sgn(b), MulMag(BigVal(a), Abs(b)))
    ELSE IF IsBig(b)
    THEN IF a = 0 THEN 0 ELSE BigOrInf(Sgn(a) * Sgn(b), MulMag(Abs(a), BigVal(b)))
    ELSE FMul(a, b)

\* a / b on floats: ZeroDivisionError on b = 0.0.
XDiv(a, b) ==
    IF IsExc(a) THEN a
    ELSE IF IsExc(b) THEN b
    ELSE IF b = 0 THEN ZeroDivisionError
    ELSE IF IsNaN(a) \/ IsNaN(b) THEN NAN
    ELSE IF IsInf(a) THEN IF IsInf(b) THEN NAN ELSE Sgn(a) * Sgn(b) * INF
    ELSE IF IsInf(b) THEN 0
    ELSE IF IsBig(a) /\ IsBig(b) THEN Sgn(a) * Sgn(b) * DivMag(BigVal(a), BigVal(b))
    ELSE IF IsBig(a) THEN BigOrInf(Sgn(a) * Sgn(b), DivMag(BigVal(a), Abs(b)))
    ELSE IF IsBig(b) THEN 0
    ELSE FDiv(a, b)

\* a + b on floats.
XAdd(a, b) ==
    IF IsExc(a) THEN a
    ELSE IF IsExc(b) THEN b
    ELSE IF IsNaN(a) \/ IsNaN(b) THEN NAN
    ELSE IF IsInf(a) THEN IF b = -a THEN NAN ELSE a
    ELSE IF IsInf(b) THEN b
    ELSE IF IsBig(a) /\ IsBig(b)
    THEN IF Sgn(a) = Sgn(b) THEN BigOrInf(Sgn(a), BigVal(a) + BigVal(b))
         ELSE IF BigVal(a) = BigVal(b) THEN 0
         ELSE IF BigVal(a) > BigVal(b) THEN BigOrInf(Sgn(a), BigVal(a) - BigVal(b))
         ELSE BigOrInf(Sgn(b), BigVal(b) - BigVal(a))
    ELSE IF IsBig(a) THEN a
    ELSE IF IsBig(b) THEN b
    ELSE a + b

\* a < b on floats: False when either is NaN.
XLt(a, b) == ~IsNaN(a) /\ ~IsNaN(b) /\ a < b

\* a >= b and a <= b on floats.
XGe(a, b) == ~IsNaN(a) /\ ~IsNaN(b) /\ a >= b

XLe(a, b) == XGe(b, a)

\* Python's max(a, b) and min(a, b): the first argument unless the second
\* compares greater (smaller).
PyMax(a, b) ==
    IF IsExc(a) THEN a ELSE IF IsExc(b) THEN b ELSE IF XLt(a, b) THEN b ELSE a

PyMin(a, b) ==
    IF IsExc(a) THEN a ELSE IF IsExc(b) THEN b ELSE IF XLt(b, a) THEN b ELSE a

\* math.exp(x): OverflowError ("math range error") on a finite x too large.
XExp(x) ==
    IF IsExc(x) \/ IsNaN(x) THEN x
    ELSE IF IsInf(x) \/ IsBig(x) THEN IF x < 0 THEN 0
                                     ELSE IF IsInf(x) THEN INF ELSE OverflowError
    ELSE Exp(x)

\* x ** y for a float x >= 0 and a finite y: a fixed-point x to a power beyond
\* fixed point underflows to 0.0 or raises OverflowError.
XPow(x, y) ==
    IF IsExc(x) THEN x
    ELSE IF y = 0 THEN FInt(1)
    ELSE IF IsNaN(x) THEN NAN
    ELSE IF IsInf(x) THEN IF y > 0 THEN INF ELSE 0
    ELSE IF x = 0 THEN IF y > 0 THEN 0 ELSE ZeroDivisionError
    ELSE IF IsBig(y) /\ ~IsBig(x)
    THEN IF x = FInt(1) THEN FInt(1)
         ELSE IF (x > FInt(1)) = (y < 0) THEN 0 ELSE OverflowError
    ELSE Pow(x, y)

\* round(x): OverflowError on an infinity, ValueError on NaN.
XRound(x) ==
    IF IsExc(x) THEN x
    ELSE IF IsNaN(x) THEN ValueError
    ELSE IF IsInf(x) THEN OverflowError
    ELSE IF IsBig(x) THEN x
    ELSE Round(x)

(***************************************************************************)
(* datetime.timedelta.                                                     *)
(***************************************************************************)

\* timedelta(days=d, seconds=s, microseconds=u), normalised as Python does.
TD(d, s, u) ==
    LET s2 == s + u \div 1000000
        u2 == u % 1000000
    IN  [days |-> d + s2 \div 86400, seconds |-> s2 % 86400, microseconds |-> u2]

Days(d) == TD(d, 0, 0)

Minutes(m) == TD(0, 60 * m, 0)

\* a + b.
TDAdd(a, b) == TD(a.days + b.days, a.seconds + b.seconds, a.microseconds + b.microseconds)

\* n / d rounded to the nearest integer, ties to even (n >= 0, d > 0).
DivHalfEven(n, d) ==
    LET q == n \div d
        r == n % d
    IN  IF 2 * r > d THEN q + 1
        ELSE IF 2 * r < d THEN q
        ELSE IF q % 2 = 0 THEN q ELSE q + 1

\* The timedelta nearest to t * num / den for a non-negative t: what
\* timedelta(minutes=m) builds from the float m, float rounding below one
\* microsecond aside.
TDScale(t, num, den) ==
    LET D == t.days * num
        S == t.seconds * num + (D % den) * 86400
        U == t.microseconds * num + (S % den) * 1000000
    IN  TD(D \div den, S \div den, DivHalfEven(U, den))

\* t.total_seconds() <= 86400.
AtMostOneDay(t) == t.days < 1 \/ t = [days |-> 1, seconds |-> 0, microseconds |-> 0]

\* t.total_seconds() < 86400.
LessThanOneDay(t) == t.days < 1

\* t.total_seconds() / 86400 as a float.
TotalDays(t) ==
    IF t.days >= 0
    THEN FInt(t.days) + DivHalfEven(t.seconds * SCALE + t.microseconds \div 100, 86400)
    ELSE -(FInt(-t.days) - DivHalfEven(t.seconds * SCALE + t.microseconds \div 100, 86400))

(***************************************************************************)
(* Rating, State, Card.                                                    *)
(***************************************************************************)

AGAIN == 1
HARD == 2
GOOD == 3
EASY == 4

Rating == {AGAIN, HARD, GOOD, EASY}

State_NEW == "New"
State_LEARNING == "Learning"
State_REVIEW == "Review"
State_RELEARNING == "Relearning"

State == {State_NEW, State_LEARNING, State_REVIEW, State_RELEARNING}

\* Card(card_id=id): the dataclass defaults.
Card(id) ==
    [card_id |-> id, interval |-> TD(0, 0, 0), state |-> State_NEW, step |-> 0,
     stability |-> 0, difficulty |-> 0]

(***************************************************************************)
(* The memory model: module-level functions of fsrs.py.  w is the          *)
(* normalised weight vector; W(w, i) is Python's w[i].                     *)
(***************************************************************************)

W(w, i) == w[i + 1]

MIN_DIFFICULTY == FInt(1)
MAX_DIFFICULTY == FInt(10)
STABILITY_MIN == SCALE \div 1000

_clamp_difficulty(difficulty) == Max(MIN_DIFFICULTY, Min(difficulty, MAX_DIFFICULTY))

_clamp_stability(stability) == PyMax(stability, STABILITY_MIN)

_raw_initial_difficulty(w, rating) ==
    W(w, 4) - Exp(FMul(W(w, 5), FInt(rating) - FInt(1))) + FInt(1)

initial_stability(w, rating) == _clamp_stability(W(w, rating - 1))

initial_difficulty(w, rating) == _clamp_difficulty(_raw_initial_difficulty(w, rating))

\* The float the interval is rounded from.
unrounded_interval_days(factor, retention, decay, stability) ==
    XMul(XDiv(stability, factor), Pow(retention, FDiv(FInt(1), decay)) - FInt(1))

\* min(rounded, max_interval): the clamp of next_interval without its floor.
ClampedNoFloor(rounded, max_interval) ==
    IF IsExc(rounded) THEN rounded ELSE Min(rounded, max_interval)

\* min(max(1, rounded), max_interval), unless round() raised.
Clamped(rounded, max_interval) ==
    IF IsExc(rounded) THEN rounded ELSE Min(Max(1, rounded), max_interval)

\* next_interval without its floor of one day.
next_interval_days_no_floor(factor, retention, decay, max_interval, stability) ==
    ClampedNoFloor(XRound(unrounded_interval_days(factor, retention, decay, stability)),
                   max_interval)

\* next_interval with retention ** (-1 / decay) for retention ** (1 / decay) - 1:
\* an interval that grows with the retention.
next_interval_days_rising(factor, retention, decay, max_interval, stability) ==
    Clamped(XRound(XMul(XDiv(stability, factor), Pow(retention, FDiv(FInt(1), -decay)))),
            max_interval)

\* The days of next_interval's timedelta, or the exception round() raises.
next_interval_days(factor, retention, decay, max_interval, stability) ==
    Clamped(XRound(unrounded_interval_days(factor, retention, decay, stability)),
            max_interval)

\* timedelta(days=d): exc = "none" and the interval, or the exception raised
\* while d was computed.
TimedeltaOfDays(d) ==
    IF IsExc(d) THEN [exc |-> ExcName(d), interval |-> TD(0, 0, 0)]
    ELSE [exc |-> "none", interval |-> Days(d)]

next_interval(factor, retention, decay, max_interval, stability) ==
    TimedeltaOfDays(next_interval_days(factor, retention, decay, max_interval, stability))

short_term_stability(w, stability, rating) ==
    LET increase == XMul(XExp(XMul(W(w, 17), FInt(rating) - FInt(3) + W(w, 18))),
                         XPow(stability, -W(w, 19)))
        final_increase == IF rating \in {GOOD, EASY} THEN PyMax(increase, FInt(1)) ELSE increase
    IN  _clamp_stability(XMul(stability, final_increase))

next_difficulty(w, difficulty, rating) ==
    LET delta_difficulty == FMul(-W(w, 6), FInt(rating) - FInt(3))
        damped_delta == FDiv(FMul(MAX_DIFFICULTY - difficulty, delta_difficulty),
                             MAX_DIFFICULTY - MIN_DIFFICULTY)
        initial_easy_difficulty == _raw_initial_difficulty(w, EASY)
        new_difficulty == FMul(W(w, 7), initial_easy_difficulty)
                          + FMul(FInt(1) - W(w, 7), difficulty + damped_delta)
    IN  _clamp_difficulty(new_difficulty)

_next_forget_stability(w, difficulty, stability, retrievability) ==
    LET long_term == XMul(XMul(FMul(W(w, 11), Pow(difficulty, -W(w, 12))),
                               XAdd(XPow(XAdd(stability, FInt(1)), W(w, 13)), -FInt(1))),
                          XExp(XMul(XAdd(FInt(1), XMul(-FInt(1), retrievability)), W(w, 14))))
        short_term == XDiv(stability, XExp(XMul(W(w, 17), W(w, 18))))
    IN  PyMin(long_term, short_term)

_next_recall_stability(w, difficulty, stability, retrievability, rating) ==
    LET hard_penalty == IF rating = HARD THEN W(w, 15) ELSE FInt(1)
        easy_bonus == IF rating = EASY THEN W(w, 16) ELSE FInt(1)
        forgotten == XAdd(FInt(1), XMul(-FInt(1), retrievability))
    IN  XMul(stability,
             XAdd(FInt(1),
                  XMul(XMul(XMul(XMul(FMul(Exp(W(w, 8)), FInt(11) - difficulty),
                                      XPow(stability, -W(w, 9))),
                                 XAdd(XExp(XMul(forgotten, W(w, 10))), -FInt(1))),
                            hard_penalty),
                       easy_bonus)))

next_stability(w, difficulty, stability, retrievability, rating) ==
    LET new_stability ==
            IF rating = AGAIN
            THEN _next_forget_stability(w, difficulty, stability, retrievability)
            ELSE _next_recall_stability(w, difficulty, stability, retrievability, rating)
    IN  _clamp_stability(new_stability)

(***************************************************************************)
(* SchedulerConfig and Scheduler construction.  An element of config.w is  *)
(* a record [cls, val]: cls is "finite" for a finite float of value val,   *)
(* and "nan" or "inf" for a non-finite one.                                *)
(***************************************************************************)

Fin(v) == [cls |-> "finite", val |-> v]

NonFinite(c) == [cls |-> c, val |-> 0]

isfinite(e) == e.cls = "finite"

SchedulerConfig(w, retention, ls, rs, max_ivl, fuzz) ==
    [w |-> w, desired_retention |-> retention, learning_steps |-> ls,
     relearning_steps |-> rs, maximum_interval |-> max_ivl, enable_fuzzing |-> fuzz]

\* The result of a call that either raises exc or returns w.
Raise(e) == [exc |-> e, w |-> <<>>]

Return(w) == [exc |-> "none", w |-> w]

\* Scheduler._check_and_fill_parameters.  The two ValueErrors the method raises
\* itself are named by their message; math.log raises a third.
_check_and_fill_parameters(w) ==
    IF \E i \in 1..Len(w) : ~isfinite(w[i]) THEN Raise("InvalidParameters")
    ELSE LET v == [i \in 1..Len(w) |-> w[i].val]
         IN  CASE Len(w) = 21 -> Return(v)
               [] Len(w) = 19 -> Return(v \o <<0, SCALE \div 2>>)
               [] Len(w) = 17 ->
                    LET w4 == FMul(W(v, 5), FInt(2)) + W(v, 4)
                        arg == FMul(W(v, 5), FInt(3)) + FInt(1)
                    IN  IF arg <= 0 THEN Raise("MathDomainError")
                        ELSE LET w5 == FDiv(Ln(arg), FInt(3))
                                 w6 == W(v, 6) + SCALE \div 2
                                 wn == [i \in 1..17 |->
                                          IF i = 5 THEN w4
                                          ELSE IF i = 6 THEN w5
                                          ELSE IF i = 7 THEN w6 ELSE v[i]]
                             IN  Return(wn \o <<0, 0, 0, SCALE \div 2>>)
               [] OTHER -> Raise("InvalidParameterCount")

\* The state of a Scheduler whose construction has not run or has raised exc.
NoScheduler(e) == [exc |-> e, w |-> <<>>, decay |-> 0, factor |-> 0]

\* Scheduler.__init__: exc = "none" and the instance's w, decay and factor, or
\* the exception the constructor raises.
Scheduler(config) ==
    LET r == _check_and_fill_parameters(config.w)
    IN  IF r.exc # "none" THEN NoScheduler(r.exc)
        ELSE LET decay == -W(r.w, 20)
             IN  IF decay = 0 THEN NoScheduler("ZeroDivisionError")
                 ELSE [exc |-> "none", w |-> r.w, decay |-> decay,
                       factor |-> Pow((9 * SCALE) \div 10, FDiv(FInt(1), decay)) - FInt(1)]

(***************************************************************************)
(* Scheduler methods.  self is the Scheduler, config its config.           *)
(***************************************************************************)

\* A method's outcome on a card: the card as the method leaves it and the
\* exception it raises ("none" when it returns).
Ok(card) == [card |-> card, exc |-> "none"]

Raised(card, e) == [card |-> card, exc |-> e]

_get_card_retrievability(self, card, review_interval) ==
    LET elapsed_days == Max(0, TotalDays(review_interval))
    IN  XPow(XAdd(FInt(1), XDiv(FMul(self.factor, elapsed_days), card.stability)),
             self.decay)

\* The two assignments that end _calculate_next_reviewed_state, reached when
\* no value raised while it was computed.
Assigned(card, retrievability, new_difficulty, new_stability) ==
    IF IsExc(retrievability) THEN Raised(card, ExcName(retrievability))
    ELSE IF IsExc(new_stability) THEN Raised(card, ExcName(new_stability))
    ELSE Ok([card EXCEPT !.difficulty = new_difficulty, !.stability = new_stability])

\* _calculate_next_reviewed_state with the new difficulty assigned before the
\* new stability is computed.
_calculate_next_reviewed_state_difficulty_first(self, card, rating, review_interval) ==
    IF card.state = State_NEW
    THEN Ok([card EXCEPT !.stability = initial_stability(self.w, rating),
                         !.difficulty = initial_difficulty(self.w, rating),
                         !.state = State_LEARNING,
                         !.step = 0])
    ELSE Assigned(card, _get_card_retrievability(self, card, review_interval),
                  next_difficulty(self.w, card.difficulty, rating),
                  IF LessThanOneDay(review_interval)
                  THEN short_term_stability(self.w, card.stability, rating)
                  ELSE next_stability(self.w,
                                      next_difficulty(self.w, card.difficulty, rating),
                                      card.stability,
                                      _get_card_retrievability(self, card, review_interval),
                                      rating))

\* Scheduler._calculate_next_reviewed_state: the card is assigned to after
\* every value has been computed, so an exception leaves it as it was.
_calculate_next_reviewed_state(self, card, rating, review_interval) ==
    IF card.state = State_NEW
    THEN Ok([card EXCEPT !.stability = initial_stability(self.w, rating),
                         !.difficulty = initial_difficulty(self.w, rating),
                         !.state = State_LEARNING,
                         !.step = 0])
    ELSE LET retrievability == _get_card_retrievability(self, card, review_interval)
             new_difficulty == next_difficulty(self.w, card.difficulty, rating)
             new_stability ==
                 IF LessThanOneDay(review_interval)
                 THEN short_term_stability(self.w, card.stability, rating)
                 ELSE next_stability(self.w, card.difficulty, card.stability,
                                     retrievability, rating)
         IN  Assigned(card, retrievability, new_difficulty, new_stability)

_calculate_next_review_interval(self, config, stability) ==
    next_interval(self.factor, config.desired_retention, self.decay,
                  config.maximum_interval, stability)

\* card.interval = r, where r is the interval or the exception raised for it.
AssignInterval(card, r) ==
    IF r.exc # "none" THEN Raised(card, r.exc)
    ELSE Ok([card EXCEPT !.interval = r.interval])

\* Scheduler._to_review_state: state and step are assigned before the interval
\* is computed from the stability.
_to_review_state(self, config, card) ==
    AssignInterval([card EXCEPT !.state = State_REVIEW, !.step = 0],
                   _calculate_next_review_interval(self, config, card.stability))

\* Scheduler._hard_interval_step: the interval, or IndexError from
\* steps[card.step] (Python's list index is card.step, 0-based).
_hard_interval_step(card, steps) ==
    IF card.step = 0 /\ Len(steps) = 1
    THEN [exc |-> "none", interval |-> TDScale(steps[1], 3, 2)]
    ELSE IF card.step = 0 /\ Len(steps) > 1
    THEN [exc |-> "none", interval |-> TDScale(TDAdd(steps[1], steps[2]), 1, 2)]
    ELSE IF card.step >= Len(steps)
    THEN [exc |-> "IndexError", interval |-> card.interval]
    ELSE [exc |-> "none", interval |-> steps[card.step + 1]]

\* An Again that leaves the step where it is.
_handle_steps_again_keep_step(card, steps) ==
    Ok([card EXCEPT !.state = State_LEARNING, !.interval = steps[1]])

\* _handle_steps, case Rating.AGAIN.
_handle_steps_again(card, steps) ==
    Ok([card EXCEPT !.state = State_LEARNING, !.step = 0, !.interval = steps[1]])

\* _handle_steps, case Rating.HARD.
_handle_steps_hard(card, steps) ==
    LET h == _hard_interval_step(card, steps)
    IN  IF h.exc # "none" THEN Raised(card, h.exc)
        ELSE Ok([card EXCEPT !.interval = h.interval])

\* A Good that leaves the card on its step: next_step without the + 1.
_handle_steps_good_no_advance(self, config, card, steps) ==
    LET next_step == card.step
    IN  IF next_step >= Len(steps)
        THEN _to_review_state(self, config, card)
        ELSE Ok([card EXCEPT !.state = State_LEARNING,
                             !.step = next_step,
                             !.interval = steps[next_step + 1]])

\* _handle_steps, case Rating.GOOD.
_handle_steps_good(self, config, card, steps) ==
    LET next_step == card.step + 1
    IN  IF next_step >= Len(steps)
        THEN _to_review_state(self, config, card)
        ELSE Ok([card EXCEPT !.state = State_LEARNING,
                             !.step = next_step,
                             !.interval = steps[next_step + 1]])

\* _handle_steps with Rating.EASY falling into the case of Rating.GOOD.
_handle_steps_easy_as_good(self, config, card, rating, steps) ==
    IF Len(steps) = 0 THEN _to_review_state(self, config, card)
    ELSE CASE rating = AGAIN -> _handle_steps_again(card, steps)
           [] rating = HARD -> _handle_steps_hard(card, steps)
           [] rating \in {GOOD, EASY} -> _handle_steps_good(self, config, card, steps)

_handle_steps(self, config, card, rating, steps) ==
    IF Len(steps) = 0 THEN _to_review_state(self, config, card)
    ELSE CASE rating = AGAIN -> _handle_steps_again(card, steps)
           [] rating = HARD -> _handle_steps_hard(card, steps)
           [] rating = GOOD -> _handle_steps_good(self, config, card, steps)
           [] rating = EASY -> _to_review_state(self, config, card)

\* _determine_next_card_state without the Relearning branch of a Review card.
_determine_next_card_state_no_relearning(self, config, card, rating) ==
    CASE card.state = State_LEARNING ->
            _handle_steps(self, config, card, rating, config.learning_steps)
      [] card.state = State_RELEARNING ->
            _handle_steps(self, config, card, rating, config.relearning_steps)
      [] card.state = State_REVIEW -> _to_review_state(self, config, card)
      [] OTHER -> Ok(card)

_determine_next_card_state(self, config, card, rating) ==
    CASE card.state = State_LEARNING ->
            _handle_steps(self, config, card, rating, config.learning_steps)
      [] card.state = State_RELEARNING ->
            _handle_steps(self, config, card, rating, config.relearning_steps)
      [] card.state = State_REVIEW ->
            IF rating = AGAIN /\ Len(config.relearning_steps) # 0
            THEN Ok([card EXCEPT !.state = State_RELEARNING,
                                 !.step = 0,
                                 !.interval = config.relearning_steps[1]])
            ELSE _to_review_state(self, config, card)
      [] OTHER -> Ok(card)

\* The spread of _get_fuzzed_interval: the sum over self._fuzz_ranges, whose
\* last range has no end.
FuzzDelta(interval_days) ==
    FMul((15 * SCALE) \div 100, Max(0, Min(interval_days, FInt(7)) - (25 * SCALE) \div 10))
    + FMul((10 * SCALE) \div 100, Max(0, Min(interval_days, FInt(20)) - FInt(7)))
    + FMul((5 * SCALE) \div 100, Max(0, interval_days - FInt(20)))

\* Bounds whose upper end lies one day beyond round(interval_days + delta).
FuzzBounds_wide(interval) ==
    <<Max(2, Round(TotalDays(interval) - FuzzDelta(TotalDays(interval)))),
      Round(TotalDays(interval) + FuzzDelta(TotalDays(interval))) + 1>>

\* The bounds <<min_ivl, max_ivl>> handed to self.rand.randint.
FuzzBounds(interval) ==
    LET interval_days == TotalDays(interval)
        delta == FuzzDelta(interval_days)
    IN  <<Max(2, Round(interval_days - delta)), Round(interval_days + delta)>>

\* _get_fuzzed_interval without the cap at maximum_interval.
_get_fuzzed_interval_no_cap(config, interval) ==
    IF TotalDays(interval) < (25 * SCALE) \div 10 THEN {interval}
    ELSE LET b == FuzzBounds(interval)
         IN  {Days(fuzzed_days) : fuzzed_days \in b[1]..b[2]}

\* Scheduler._get_fuzzed_interval: every interval a draw of self.rand can give.
\* The set is empty when randint would raise ValueError (min_ivl > max_ivl).
_get_fuzzed_interval(config, interval) ==
    IF TotalDays(interval) < (25 * SCALE) \div 10 THEN {interval}
    ELSE LET b == FuzzBounds(interval)
         IN  {Days(Min(fuzzed_days, config.maximum_interval)) : fuzzed_days \in b[1]..b[2]}

\* Whether _get_fuzzed_interval draws from self.rand.
FuzzDraws(config, card) ==
    /\ config.enable_fuzzing
    /\ card.state = State_REVIEW
    /\ TotalDays(card.interval) >= (25 * SCALE) \div 10

\* _apply_fuzzing without the test of config.enable_fuzzing.
_apply_fuzzing_always(config, card) ==
    IF card.state = State_REVIEW
    THEN LET ivls == _get_fuzzed_interval(config, card.interval)
         IN  IF ivls = {} THEN {Raised(card, "ValueError")}
             ELSE {Ok([card EXCEPT !.interval = i]) : i \in ivls}
    ELSE {Ok(card)}

\* Scheduler._apply_fuzzing: every outcome it can have on the card.
_apply_fuzzing(config, card) ==
    IF config.enable_fuzzing /\ card.state = State_REVIEW
    THEN LET ivls == _get_fuzzed_interval(config, card.interval)
         IN  IF ivls = {} THEN {Raised(card, "ValueError")}
             ELSE {Ok([card EXCEPT !.interval = i]) : i \in ivls}
    ELSE {Ok(card)}

\* The second statement of review_card, reached when the first (outcome r1) did
\* not raise.
ThenDetermine(self, config, rating, r1) ==
    IF r1.exc # "none" THEN r1
    ELSE _determine_next_card_state(self, config, r1.card, rating)

\* The third statement of review_card, reached when the second (outcome r2) did
\* not raise.
ThenFuzz(config, r2) ==
    IF r2.exc # "none" THEN {r2} ELSE _apply_fuzzing(config, r2.card)

\* The outcome of the first two statements of review_card: the card whose
\* interval _apply_fuzzing is handed.
BeforeFuzzing(self, config, card, rating, review_interval) ==
    ThenDetermine(self, config, rating,
                  _calculate_next_reviewed_state(self, card, rating, review_interval))

\* A review_card that draws from self.rand in every call.
Draws_unconditional(config, r2) == 1

\* How many times _apply_fuzzing draws from self.rand after the outcome r2.
Draws(config, r2) == IF r2.exc = "none" /\ FuzzDraws(config, r2.card) THEN 1 ELSE 0

\* Scheduler.review_card: every outcome of one call.  An exception leaves the
\* card as the statements before it mutated it.
review_card(self, config, card, rating, review_interval) ==
    ThenFuzz(config,
             ThenDetermine(self, config, rating,
                           _calculate_next_reviewed_state(self, card, rating,
                                                          review_interval)))

(***************************************************************************)
(* The state machine.                                                      *)
(*   config  the SchedulerConfig handed to the constructor                 *)
(*   sched   the Scheduler: exc = "unbuilt" before Scheduler(config) runs, *)
(*           "none" once it has returned, the exception if it raised       *)
(*   cards   the caller's cards, by card_id                                *)
(*   exc     the exception the latest review_card call raised, or "none"   *)
(*   hist    per card, the <<rating, review_interval>> of its reviews      *)
(*   last    the latest review_card call: its card_id, arguments and the   *)
(*           card as it was before the call (id = 0 before any call)       *)
(*   draws   how many times self.rand has been drawn from                  *)
(*   sweep   the interval sweep of test_next_interval: its stability, the  *)
(*           desired_retention of its latest iteration and its list        *)
(*           actual_intervals                                              *)
(***************************************************************************)
VARIABLES config, sched, cards, exc, hist, last, draws, sweep

vars == <<config, sched, cards, exc, hist, last, draws, sweep>>

\* DEFAULT_CONFIG.w
DEFAULT_W ==
    <<2120, 12931, 23065, 82956, 64133, 8334, 30194, 10, 18722, 1666, 7960,
      14835, 614, 2629, 16483, 6014, 18729, 5425, 912, 658, 1542>>

\* A list of finite floats as a config.w.
Floats(v) == [i \in 1..Len(v) |-> Fin(v[i])]

\* DEFAULT_CONFIG.desired_retention and DEFAULT_CONFIG.maximum_interval
DEFAULT_RETENTION == (9 * SCALE) \div 10
DEFAULT_MAXIMUM_INTERVAL == 36500

\* The step sequences of the configs: none, one step, two steps.
StepChoices == {<<>>, <<Minutes(1)>>, <<Minutes(1), Minutes(10)>>}

ReStepChoices == {<<>>, <<Minutes(10), Minutes(20)>>}

\* replace(DEFAULT_CONFIG, learning_steps=ls, relearning_steps=rs,
\*         maximum_interval=max_ivl, enable_fuzzing=fuzz)
DefaultWith(ls, rs, max_ivl, fuzz) ==
    SchedulerConfig(Floats(DEFAULT_W), DEFAULT_RETENTION, ls, rs, max_ivl, fuzz)

\* The configs of Spec: DEFAULT_CONFIG with every pair of step sequences and
\* fuzzing disabled (SpecFuzz has the configs with fuzzing enabled).
Configs ==
    {DefaultWith(ls, rs, DEFAULT_MAXIMUM_INTERVAL, FALSE) :
        ls \in StepChoices, rs \in ReStepChoices}

NoCall == [id |-> 0, rating |-> 0, review_interval |-> TD(0, 0, 0), before |-> Card(0)]

NoSweep == [stability |-> 0, retention |-> 0, actual_intervals |-> <<>>]

\* The state before the constructor runs, with the given cards.
InitWith(cfgs, cs) ==
    /\ config \in cfgs
    /\ sched = NoScheduler("unbuilt")
    /\ cards = cs
    /\ exc = "none"
    /\ hist = [i \in DOMAIN cs |-> <<>>]
    /\ last = NoCall
    /\ draws = 0
    /\ sweep = NoSweep

\* One new card, Card(card_id=1).
OneCard == [i \in {1} |-> Card(i)]

\* scheduler = Scheduler(config)
Construct ==
    /\ sched.exc = "unbuilt"
    /\ sched' = Scheduler(config)
    /\ UNCHANGED <<config, cards, exc, hist, last, draws, sweep>>

\* The elapsed times a caller passes as review_interval.  "schedule": the
\* card's own interval (a review on schedule, as the tests do) or one day;
\* "gaps": the same day, one day or thirty days after the last review;
\* "edge": as "gaps", and one microsecond short of a day; "due": the card's
\* own interval.
Elapsed(mode, card) ==
    IF mode = "schedule" THEN {card.interval, Days(1)}
    ELSE IF mode = "due" THEN {card.interval}
    ELSE IF mode = "edge" THEN {TD(0, 0, 0), TD(0, 86399, 999999), Days(1), Days(30)}
    ELSE {TD(0, 0, 0), Days(1), Days(30)}

RECURSIVE SumLen(_, _)
SumLen(h, S) ==
    IF S = {} THEN 0
    ELSE LET i == CHOOSE i \in S : TRUE IN Len(h[i]) + SumLen(h, S \ {i})

\* The review_card calls made so far.
NumReviews == SumLen(hist, DOMAIN hist)

\* What one review_card call records besides the card.
Recorded(id, rating, review_interval, o) ==
    /\ exc' = o.exc
    /\ draws' = draws + Draws(config, BeforeFuzzing(sched, config, cards[id], rating,
                                                    review_interval))
    /\ last' = [id |-> id, rating |-> rating, review_interval |-> review_interval,
                before |-> cards[id]]

\* A review_card that keeps the stability it computed in the Scheduler: every
\* other card takes it over.
ReviewWith_shared(id, rating, review_interval) ==
    /\ sched.exc = "none"
    /\ \E o \in review_card(sched, config, cards[id], rating, review_interval) :
          /\ cards' = [i \in DOMAIN cards |->
                         IF i = id THEN o.card
                         ELSE [cards[i] EXCEPT !.stability = o.card.stability]]
          /\ Recorded(id, rating, review_interval, o)
    /\ hist' = [hist EXCEPT ![id] = Append(@, <<rating, review_interval>>)]
    /\ UNCHANGED <<config, sched, sweep>>

\* scheduler.review_card(cards[id], rating, review_interval): the card is
\* mutated in place, self.rand is drawn from when the interval is fuzzed.
ReviewWith(id, rating, review_interval) ==
    /\ sched.exc = "none"
    /\ \E o \in review_card(sched, config, cards[id], rating, review_interval) :
          /\ cards' = [cards EXCEPT ![id] = o.card]
          /\ Recorded(id, rating, review_interval, o)
    /\ hist' = [hist EXCEPT ![id] = Append(@, <<rating, review_interval>>)]
    /\ UNCHANGED <<config, sched, sweep>>

\* A caller reviewing its cards, at most n times, after the elapsed times of
\* the given mode.
ReviewUpTo(n, mode) ==
    /\ NumReviews < n
    /\ \E id \in DOMAIN cards, rating \in Rating :
          \E review_interval \in Elapsed(mode, cards[id]) :
             ReviewWith(id, rating, review_interval)

\* Bound: the reviews of one run of Spec.
MaxReviews == 4

Review == ReviewUpTo(MaxReviews, "schedule")

Init == InitWith(Configs, OneCard)

Next == Construct \/ Review

Spec == Init /\ [][Next]_vars

(***************************************************************************)
(* What the claims speak of: the latest call, the card it was made on,     *)
(* before and after.                                                       *)
(***************************************************************************)

Called == last.id # 0

Before == last.before

After == cards[last.id]

\* The state whose step sequence the call uses: _calculate_next_reviewed_state
\* moves a New card to Learning at step 0 before the steps are looked at.
BeforeState == IF Before.state = State_NEW THEN State_LEARNING ELSE Before.state

BeforeStep == IF Before.state = State_NEW THEN 0 ELSE Before.step

\* The step sequence active for a card in Learning or Relearning.
StepsOf(state) ==
    IF state = State_RELEARNING THEN config.relearning_steps ELSE config.learning_steps

InSteps == Called /\ BeforeState \in {State_LEARNING, State_RELEARNING}

\* C1: review_card has no error path: no call raises.
C1_ReviewNeverRaises == exc = "none"

\* C7: Good in Learning or Relearning (a New card counts as Learning at step
\* 0) with a non-empty step sequence moves the card to step + 1 with interval
\* steps[step + 1] when step + 1 < len(steps), and to Review with an interval of
\* at least one day otherwise; so with n >= 1 learning steps a new card is in
\* Learning at step k with interval learning_steps[k] after k consecutive Goods
\* (0 < k < n) and in Review after the n-th.
AllGood(h) == \A j \in 1..Len(h) : h[j][1] = GOOD

C7_GoodRule ==
    /\ (InSteps /\ last.rating = GOOD /\ Len(StepsOf(BeforeState)) > 0) =>
          /\ exc = "none"
          /\ IF BeforeStep + 1 < Len(StepsOf(BeforeState))
             THEN /\ After.step = BeforeStep + 1
                  /\ After.interval = StepsOf(BeforeState)[BeforeStep + 2]
             ELSE /\ After.state = State_REVIEW
                  /\ After.interval.days >= 1
    /\ \A id \in DOMAIN cards :
          LET k == Len(hist[id])
              n == Len(config.learning_steps)
          IN  (AllGood(hist[id]) /\ n >= 1 /\ k >= 1 /\ k <= n) =>
                 IF k < n
                 THEN /\ cards[id].state = State_LEARNING
                      /\ cards[id].step = k
                      /\ cards[id].interval = config.learning_steps[k + 1]
                 ELSE cards[id].state = State_REVIEW

\* C7's case: a Relearning card with a further relearning step is rated Good.
C7_Witness ==
    /\ Called /\ last.rating = GOOD /\ exc = "none"
    /\ Before.state = State_RELEARNING
    /\ Before.step + 1 < Len(config.relearning_steps)
    /\ After.step = Before.step + 1
    /\ After.interval = config.relearning_steps[Before.step + 2]

\* C8: Hard in Learning or Relearning (a New card counts as Learning at step
\* 0) with a non-empty step sequence leaves state and step unchanged and sets
\* the interval to 1.5 x steps[0] if step = 0 and one step is configured, to the
\* average of steps[0] and steps[1] if step = 0 and at least two are, and to
\* steps[step] otherwise.
C8_HardRule ==
    (InSteps /\ last.rating = HARD /\ Len(StepsOf(BeforeState)) > 0) =>
       LET steps == StepsOf(BeforeState)
       IN  /\ exc = "none"
           /\ After.state = BeforeState
           /\ After.step = BeforeStep
           /\ IF BeforeStep = 0 /\ Len(steps) = 1
              THEN After.interval = TDScale(steps[1], 3, 2)
              ELSE IF BeforeStep = 0 /\ Len(steps) >= 2
              THEN After.interval = TDScale(TDAdd(steps[1], steps[2]), 1, 2)
              ELSE /\ BeforeStep < Len(steps)
                   /\ After.interval = steps[BeforeStep + 1]

(***************************************************************************)
(* SpecStored: the cards are not new but come from the caller's storage,   *)
(* in any state, and are reviewed under a config that need not be the one  *)
(* they were last reviewed under.                                          *)
(***************************************************************************)

MaxStoredReviews == 1

StoredCards ==
    {Card(1)} \cup
    {[card_id |-> 1, interval |-> iv, state |-> st, step |-> sp, stability |-> s,
      difficulty |-> d] :
        iv \in {Minutes(10), Days(2)},
        st \in {State_LEARNING, State_REVIEW, State_RELEARNING},
        sp \in {0, 1},
        s \in {STABILITY_MIN, 23065},
        d \in {MIN_DIFFICULTY, 64133, MAX_DIFFICULTY}}

InitStored == \E c \in StoredCards : InitWith(Configs, [i \in {1} |-> c])

ReviewStored == ReviewUpTo(MaxStoredReviews, "schedule")

NextStored == Construct \/ ReviewStored

SpecStored == InitStored /\ [][NextStored]_vars

\* C9: a card in Learning (a New card included) when learning_steps is empty, or
\* in Relearning when relearning_steps is empty, is moved to Review with step 0
\* and an interval of at least one day, whatever the rating.
C9_EmptySteps ==
    (InSteps /\ Len(StepsOf(BeforeState)) = 0) =>
       /\ exc = "none"
       /\ After.state = State_REVIEW
       /\ After.step = 0
       /\ After.interval.days >= 1

\* C9's case: a Relearning card on a later step is rated Again with no
\* relearning steps configured, and ends in Review.
C9_Witness ==
    /\ Called /\ last.rating = AGAIN
    /\ Before.state = State_RELEARNING /\ Before.step = 1
    /\ Len(config.relearning_steps) = 0
    /\ After.state = State_REVIEW

(***************************************************************************)
(* SpecMem: the memory model under several weight vectors and under gaps   *)
(* of no time, one day and thirty days between reviews.                    *)
(***************************************************************************)

MaxMemReviews == 3

\* DEFAULT_CONFIG.w with w[0] = 0.0005, an initial stability below
\* STABILITY_MIN.
LOW_W == [DEFAULT_W EXCEPT ![1] = 5]

\* DEFAULT_CONFIG.w with w[17] = -1e308, a finite float.
BIG_W == [DEFAULT_W EXCEPT ![18] = -Big(FInt(10000))]

\* DEFAULT_CONFIG.w with w[17] = 1e308, w[18] = 2.0 and w[19] = 1e308, all
\* finite floats.
STEEP_W == [DEFAULT_W EXCEPT ![18] = Big(FInt(10000)), ![19] = FInt(2),
                             ![20] = Big(FInt(10000))]

MemWeights == {DEFAULT_W, LOW_W, STEEP_W, SubSeq(DEFAULT_W, 1, 19), SubSeq(DEFAULT_W, 1, 17)}

MemConfigs ==
    {SchedulerConfig(Floats(w), DEFAULT_RETENTION, <<>>, <<>>,
                     DEFAULT_MAXIMUM_INTERVAL, FALSE) : w \in MemWeights}
    \cup {SchedulerConfig(Floats(w), DEFAULT_RETENTION, <<Minutes(1), Minutes(10)>>,
                           <<Minutes(10)>>, DEFAULT_MAXIMUM_INTERVAL, FALSE) :
             w \in {DEFAULT_W, BIG_W}}

InitMem == InitWith(MemConfigs, OneCard)

ReviewMem == ReviewUpTo(MaxMemReviews, "gaps")

NextMem == Construct \/ ReviewMem

SpecMem == InitMem /\ [][NextMem]_vars

\* C2: after every review_card call the card's stability is at least
\* STABILITY_MIN and its difficulty is within [1.0, 10.0].
C2_MemoryBounds ==
    \A id \in DOMAIN cards :
       Len(hist[id]) > 0 =>
          /\ XGe(cards[id].stability, STABILITY_MIN)
          /\ XGe(cards[id].difficulty, MIN_DIFFICULTY)
          /\ XLe(cards[id].difficulty, MAX_DIFFICULTY)

(***************************************************************************)
(* SpecFuzz: fuzzing enabled and disabled, under several maximum_interval. *)
(***************************************************************************)

MaxFuzzReviews == 2

FuzzConfigs ==
    {DefaultWith(st[1], st[2], max_ivl, fuzz) :
        st \in {<<<<>>, <<>>>>, <<<<Minutes(1), Minutes(10)>>, <<Minutes(10)>>>>},
        max_ivl \in {1, 10, DEFAULT_MAXIMUM_INTERVAL},
        fuzz \in BOOLEAN}

InitFuzz == InitWith(FuzzConfigs, OneCard)

ReviewFuzz == ReviewUpTo(MaxFuzzReviews, "schedule")

NextFuzz == Construct \/ ReviewFuzz

SpecFuzz == InitFuzz /\ [][NextFuzz]_vars

\* C3: whenever review_card leaves a card in Review, its interval is a whole
\* number of days, at least 1 and at most maximum_interval, with fuzzing
\* disabled and with fuzzing enabled.
C3_IntervalBounds ==
    \A id \in DOMAIN cards :
       cards[id].state = State_REVIEW =>
          /\ cards[id].interval = Days(cards[id].interval.days)
          /\ cards[id].interval.days >= 1
          /\ cards[id].interval.days <= config.maximum_interval

\* C3's case: a fuzzed interval sits on the cap, which is below what the draw
\* could have given.
C3_Witness ==
    /\ Called /\ config.enable_fuzzing /\ draws >= 1
    /\ After.state = State_REVIEW
    /\ config.maximum_interval = 10
    /\ After.interval.days = config.maximum_interval
    /\ FuzzBounds(Days(10))[2] > config.maximum_interval

(***************************************************************************)
(* SpecCtor: Scheduler(config) on weight vectors of every kind, and the    *)
(* reviews the constructed Scheduler then serves.                          *)
(***************************************************************************)

MaxCtorReviews == 2

\* The first n elements of DEFAULT_CONFIG.w, and a vector one longer than it.
Prefix(n) == SubSeq(DEFAULT_W, 1, n)

CtorLengths == {0, 16, 17, 18, 19, 20, 21}

\* A vector with the element at Python index i replaced by a NaN or an infinity.
Poisoned(v, i, c) == [Floats(v) EXCEPT ![i + 1] = NonFinite(c)]

CtorWeights ==
    {Floats(Prefix(n)) : n \in CtorLengths}
    \cup {Floats(DEFAULT_W \o <<0>>)}
    \cup {Poisoned(Prefix(n), i, c) :
            n \in {17, 18, 19, 21}, i \in {0, 16}, c \in {"nan", "inf", "-inf"}}
    \cup {Floats([DEFAULT_W EXCEPT ![21] = 0])}
    \cup {Floats([Prefix(17) EXCEPT ![6] = -(SCALE \div 2)])}

CtorConfigs ==
    {SchedulerConfig(w, DEFAULT_RETENTION, <<Minutes(1), Minutes(10)>>, <<Minutes(10)>>,
                     DEFAULT_MAXIMUM_INTERVAL, FALSE) : w \in CtorWeights}

InitCtor == InitWith(CtorConfigs, OneCard)

ReviewCtor == ReviewUpTo(MaxCtorReviews, "schedule")

NextCtor == Construct \/ ReviewCtor

SpecCtor == InitCtor /\ [][NextCtor]_vars

\* math.isfinite on a float of the memory model.
IsFinite(x) == ~IsNaN(x) /\ ~IsInf(x)

\* C4: Scheduler construction fails exactly when config.w has a non-finite
\* element or a length other than 17, 19 or 21; when it does not fail the
\* normalised w has exactly 21 finite elements and decay and factor come from it.
C4_ConstructionContract ==
    sched.exc # "unbuilt" =>
       LET malformed == \/ \E i \in 1..Len(config.w) : ~isfinite(config.w[i])
                        \/ Len(config.w) \notin {17, 19, 21}
       IN  /\ (sched.exc # "none") <=> malformed
           /\ sched.exc = "none" =>
                 /\ Len(sched.w) = 21
                 /\ \A i \in 1..21 : IsFinite(sched.w[i])
                 /\ sched.decay = -W(sched.w, 20)
                 /\ sched.factor = Pow((9 * SCALE) \div 10, FDiv(FInt(1), sched.decay)) - FInt(1)

(***************************************************************************)
(* SpecDet: two runs side by side.  Card 1 is the card of the first run,   *)
(* card 2 the card of the second; each run has a Scheduler built from      *)
(* config, with a random.Random() of its own, and gets the same rating and *)
(* review_interval at every step.                                          *)
(***************************************************************************)

MaxDetReviews == 2

DetConfigs ==
    {DefaultWith(<<>>, <<>>, DEFAULT_MAXIMUM_INTERVAL, FALSE),
     DefaultWith(<<Minutes(1), Minutes(10)>>, <<Minutes(10)>>, DEFAULT_MAXIMUM_INTERVAL, FALSE),
     DefaultWith(<<>>, <<>>, 10, TRUE)}

\* Both runs start from Card(card_id=1).
TwoRuns == [i \in {1, 2} |-> Card(1)]

InitDet == InitWith(DetConfigs, TwoRuns)

\* One step of both runs: review_card(card, rating, review_interval) in each.
ReviewBoth ==
    /\ sched.exc = "none"
    /\ Len(hist[1]) < MaxDetReviews
    /\ \E rating \in Rating :
       \E review_interval \in Elapsed("schedule", cards[1]) :
          /\ \E o1 \in review_card(sched, config, cards[1], rating, review_interval) :
             \E o2 \in review_card(sched, config, cards[2], rating, review_interval) :
                /\ cards' = [cards EXCEPT ![1] = o1.card, ![2] = o2.card]
                /\ exc' = IF o1.exc # "none" THEN o1.exc ELSE o2.exc
                /\ draws' = draws
                            + Draws(config, BeforeFuzzing(sched, config, cards[1], rating,
                                                          review_interval))
                            + Draws(config, BeforeFuzzing(sched, config, cards[2], rating,
                                                          review_interval))
          /\ last' = [id |-> 2, rating |-> rating, review_interval |-> review_interval,
                      before |-> cards[2]]
          /\ hist' = [i \in DOMAIN hist |-> Append(hist[i], <<rating, review_interval>>)]
    /\ UNCHANGED <<config, sched, sweep>>

NextDet == Construct \/ ReviewBoth

SpecDet == InitDet /\ [][NextDet]_vars

\* C5: with enable_fuzzing false, two runs from identical cards under the same
\* inputs and the same config have identical cards after every call.
C5_Deterministic ==
    ~config.enable_fuzzing =>
       /\ cards[1].state = cards[2].state
       /\ cards[1].step = cards[2].step
       /\ cards[1].interval = cards[2].interval
       /\ cards[1].stability = cards[2].stability
       /\ cards[1].difficulty = cards[2].difficulty

\* C5's case: fuzzing is disabled and both runs have reached Review with an
\* interval that fuzzing would have spread.
C5_Witness ==
    /\ ~config.enable_fuzzing
    /\ Len(hist[1]) = MaxDetReviews /\ hist[2] = hist[1]
    /\ cards[1].state = State_REVIEW
    /\ TotalDays(cards[1].interval) >= (25 * SCALE) \div 10
    /\ cards[2] = cards[1]

(***************************************************************************)
(* SpecTwo: one Scheduler, two different cards, reviewed in any order.     *)
(***************************************************************************)

MaxTwoReviews == 3

TwoConfigs ==
    {DefaultWith(<<Minutes(1), Minutes(10)>>, <<Minutes(10)>>, DEFAULT_MAXIMUM_INTERVAL, FALSE)}

\* A new card and a card that has been reviewed before.
TwoCards ==
    [i \in {1, 2} |->
        IF i = 1 THEN Card(1)
        ELSE [Card(2) EXCEPT !.state = State_REVIEW, !.interval = Days(2),
                             !.stability = W(DEFAULT_W, 2), !.difficulty = W(DEFAULT_W, 4)]]

InitTwo == InitWith(TwoConfigs, TwoCards)

ReviewTwo == ReviewUpTo(MaxTwoReviews, "schedule")

NextTwo == Construct \/ ReviewTwo

SpecTwo == InitTwo /\ [][NextTwo]_vars

\* The card after the reviews h made on it alone, in order (fuzzing disabled:
\* review_card has one outcome).
RECURSIVE Alone(_, _)
Alone(card, h) ==
    IF h = <<>> THEN card
    ELSE LET o == CHOOSE o \in review_card(sched, config, card, h[1][1], h[1][2]) : TRUE
         IN  Alone(o.card, Tail(h))

\* C6: with fuzzing disabled, however the reviews of two cards are interleaved,
\* each card is as its own reviews alone leave it: a review_card call on one
\* card changes no field of the other.
C6_Independent ==
    (~config.enable_fuzzing /\ sched.exc = "none") =>
       \A id \in DOMAIN cards : cards[id] = Alone(TwoCards[id], hist[id])

\* C6's case: the reviews of the two cards have been interleaved, card 1 before
\* and after a review of card 2.
C6_Witness ==
    /\ Len(hist[1]) = 2 /\ Len(hist[2]) = 1
    /\ last.id = 1
    /\ last.before # Alone(TwoCards[1], <<>>)
    /\ cards[2] # TwoCards[2]
    /\ cards[2] = Alone(TwoCards[2], hist[2])
    /\ cards[1] = Alone(TwoCards[1], hist[1])

(***************************************************************************)
(* SpecSweep: the loop of test_next_interval, a Scheduler per              *)
(* desired_retention and one stability, over rising retentions.            *)
(***************************************************************************)

MaxSweep == 3

\* maximum_interval=2**31 - 1
SWEEP_MAXIMUM_INTERVAL == 2 ^ 30 + (2 ^ 30 - 1)

\* The desired retentions 0.30, 0.35, ... 1.00.
SweepRetentions == {(r * SCALE) \div 100 : r \in {30 + 5 * k : k \in 0..14}}

SweepStabilities ==
    {STABILITY_MIN, SCALE \div 2, FInt(1), W(DEFAULT_W, 2), FInt(10), FInt(30)}

SweepConfigs ==
    {SchedulerConfig(Floats(w), DEFAULT_RETENTION, <<>>, <<>>, SWEEP_MAXIMUM_INTERVAL, FALSE) :
        w \in {DEFAULT_W, Prefix(19)}}

InitSweep == InitWith(SweepConfigs, OneCard)

\* One iteration of the loop, for a retention above the previous one:
\*   current_config = replace(base_config, desired_retention=r)
\*   scheduler = Scheduler(current_config)
\*   interval = scheduler._calculate_next_review_interval(stability)
\*   actual_intervals.append(int(interval.days))
\* The first iteration fixes the stability.
SweepStep ==
    /\ Len(sweep.actual_intervals) < MaxSweep
    /\ \E r \in SweepRetentions, stability \in SweepStabilities :
          /\ r > sweep.retention
          /\ sweep.actual_intervals # <<>> => stability = sweep.stability
          /\ LET current_config == [config EXCEPT !.desired_retention = r]
                 scheduler == Scheduler(current_config)
                 interval == _calculate_next_review_interval(scheduler, current_config,
                                                             stability)
             IN  /\ config' = current_config
                 /\ sched' = scheduler
                 /\ sweep' = [stability |-> stability, retention |-> r,
                              actual_intervals |->
                                  Append(sweep.actual_intervals, interval.interval.days)]
    /\ UNCHANGED <<cards, exc, hist, last, draws>>

NextSweep == SweepStep

SpecSweep == InitSweep /\ [][NextSweep]_vars

\* C10: for a fixed stability and fixed weights a higher desired_retention never
\* gives a longer unfuzzed interval: actual_intervals never rises.
C10_IntervalMonotone ==
    \A i, j \in 1..Len(sweep.actual_intervals) :
       i < j => sweep.actual_intervals[i] >= sweep.actual_intervals[j]

\* C10's case: stability 1.0 under DEFAULT_CONFIG.w at retentions 0.3, 0.5 and
\* 0.8, the intervals test_next_interval expects there.
C10_Witness ==
    /\ sweep.stability = FInt(1)
    /\ Len(config.w) = 21
    /\ sweep.retention = (8 * SCALE) \div 10
    /\ sweep.actual_intervals = <<2508, 90, 3>>

(***************************************************************************)
(* The card state machine, call by call.                                   *)
(***************************************************************************)

\* C11: Again in Learning or Relearning (a New card counts as Learning at step
\* 0) with a non-empty step sequence resets the step to 0, sets the interval to
\* the first step of the sequence active before the review and leaves the card
\* in Learning.
C11_AgainRule ==
    (InSteps /\ last.rating = AGAIN /\ Len(StepsOf(BeforeState)) > 0) =>
       /\ exc = "none"
       /\ After.step = 0
       /\ After.interval = StepsOf(BeforeState)[1]
       /\ After.state = State_LEARNING

\* C11's case: a Relearning card beyond its first step is rated Again.
C11_Witness ==
    /\ Called /\ last.rating = AGAIN /\ exc = "none"
    /\ Before.state = State_RELEARNING /\ Before.step = 1
    /\ Len(config.relearning_steps) = 2
    /\ After.state = State_LEARNING /\ After.step = 0
    /\ After.interval = config.relearning_steps[1]

\* C12: a Review card rated Again moves to Relearning at step 0 with interval
\* relearning_steps[0] when relearning_steps is non-empty; in every other case
\* it stays in Review with step 0 and the interval of its updated stability.  It
\* never moves to Learning or New.
C12_ReviewRule ==
    (Called /\ Before.state = State_REVIEW) =>
       /\ exc = "none"
       /\ After.state \notin {State_LEARNING, State_NEW}
       /\ IF last.rating = AGAIN /\ Len(config.relearning_steps) > 0
          THEN /\ After.state = State_RELEARNING
               /\ After.step = 0
               /\ After.interval = config.relearning_steps[1]
          ELSE /\ After.state = State_REVIEW
               /\ After.step = 0
               /\ After.interval =
                     _calculate_next_review_interval(sched, config, After.stability).interval

\* C12's case: a Review card is rated Again under relearning steps and enters
\* Relearning.
C12_Witness ==
    /\ Called /\ last.rating = AGAIN /\ exc = "none"
    /\ Before.state = State_REVIEW
    /\ Len(config.relearning_steps) > 0
    /\ After.state = State_RELEARNING /\ After.step = 0
    /\ After.interval = config.relearning_steps[1]

\* C13: a card created New has, whenever it is in Learning, a step below
\* len(learning_steps), and whenever it is in Relearning a step below
\* len(relearning_steps).
C13_StepIndex ==
    \A id \in DOMAIN cards :
       /\ cards[id].state = State_LEARNING =>
             (0 <= cards[id].step /\ cards[id].step < Len(config.learning_steps))
       /\ cards[id].state = State_RELEARNING =>
             (0 <= cards[id].step /\ cards[id].step < Len(config.relearning_steps))

\* C14: Good or Hard on a Learning or Relearning card changes its state only
\* by moving it to Review: a Relearning card rated Good with a further
\* relearning step stays in Relearning.
C14_LeavesOnlyToReview ==
    (InSteps /\ last.rating \in {GOOD, HARD} /\ exc = "none") =>
       \/ After.state = BeforeState
       \/ After.state = State_REVIEW

(***************************************************************************)
(* Fuzzing, as the third statement of review_card.                         *)
(***************************************************************************)

\* The card of the latest call as _apply_fuzzing received it.
Unfuzzed == BeforeFuzzing(sched, config, Before, last.rating, last.review_interval)

\* delta = 0.15*max(0, min(I,7) - 2.5) + 0.10*max(0, min(I,20) - 7)
\*         + 0.05*max(0, I - 20), for I in days.
DeltaOf(I) ==
    (15 * Max(0, Min(I, 7 * SCALE) - (5 * SCALE) \div 2)) \div 100
    + (10 * Max(0, Min(I, 20 * SCALE) - 7 * SCALE)) \div 100
    + (5 * Max(0, I - 20 * SCALE)) \div 100

\* The final interval lies in the window around the unfuzzed I days, capped.
InWindow(I, final_interval, maximum_interval) ==
    /\ Max(2, Round(I - DeltaOf(I))) <= Round(I + DeltaOf(I))
    /\ \E d \in Max(2, Round(I - DeltaOf(I))) .. Round(I + DeltaOf(I)) :
          final_interval = Days(Min(d, maximum_interval))

\* What review_card may do to the unfuzzed card pre to give the card final.
FuzzEffect(pre, final) ==
    /\ final = [pre EXCEPT !.interval = final.interval]
    /\ IF /\ config.enable_fuzzing
          /\ pre.state = State_REVIEW
          /\ 2 * TotalDays(pre.interval) >= 5 * SCALE
       THEN InWindow(TotalDays(pre.interval), final.interval, config.maximum_interval)
       ELSE final.interval = pre.interval

\* C15: review_card perturbs the computed interval only when fuzzing is enabled,
\* the resulting state is Review and the unfuzzed interval I is at least 2.5
\* days; then the final interval is min(d, maximum_interval) days for a whole d
\* with max(2, round(I - delta)) <= d <= round(I + delta), the lower bound not
\* above the upper; in every other case the interval is the unfuzzed one.
C15_FuzzEffect ==
    (Called /\ Unfuzzed.exc = "none") =>
       /\ exc = "none"
       /\ FuzzEffect(Unfuzzed.card, After)

\* C15's case: a draw moved the interval of a Review card above its unfuzzed
\* value and below the cap.
C15_Witness ==
    /\ Called /\ exc = "none" /\ config.enable_fuzzing
    /\ After.state = State_REVIEW
    /\ Unfuzzed.card.interval.days >= 3
    /\ After.interval.days > Unfuzzed.card.interval.days
    /\ After.interval.days < config.maximum_interval

(***************************************************************************)
(* Reviews on the day of the previous review.                              *)
(***************************************************************************)

\* C16: a card that is not New, with stability >= STABILITY_MIN, reviewed Good
\* or Easy after less than one day has a stability after review_card greater
\* than or equal to its stability before.
C16_SameDaySuccess ==
    (/\ Called
     /\ Before.state # State_NEW
     /\ XGe(Before.stability, STABILITY_MIN)
     /\ last.review_interval.days < 1
     /\ last.rating \in {GOOD, EASY}) =>
       XGe(After.stability, Before.stability)

(***************************************************************************)
(* What one review_card call leaves alone.                                 *)
(***************************************************************************)

\* The step is a review_card call.
IsReview == hist' # hist

\* The card the call of this step was handed to _apply_fuzzing with.
UnfuzzedNext ==
    BeforeFuzzing(sched, config, cards[last'.id], last'.rating, last'.review_interval)

\* The call of this step drew from self.rand only under the three conditions.
DrawsOnlyWhenFuzzing ==
    draws' # draws =>
       /\ config.enable_fuzzing
       /\ cards'[last'.id].state = State_REVIEW
       /\ UnfuzzedNext.card.state = State_REVIEW
       /\ 2 * TotalDays(UnfuzzedNext.card.interval) >= 5 * SCALE

\* C17: a review_card call changes only the passed card's interval, state,
\* step, stability and difficulty and the Scheduler's random generator: the
\* card's id, every other card, the config and the Scheduler's w, decay and
\* factor are unchanged, and the generator is drawn from only when fuzzing is
\* enabled, the resulting state is Review and the interval is at least 2.5 days.
C17_Frame ==
    [][IsReview =>
          /\ cards'[last'.id].card_id = cards[last'.id].card_id
          /\ \A i \in DOMAIN cards : i # last'.id => cards'[i] = cards[i]
          /\ DOMAIN cards' = DOMAIN cards
          /\ config' = config
          /\ sched' = sched
          /\ DrawsOnlyWhenFuzzing]_vars

\* C17's case: of two reviews under fuzzing, one drew from the generator and
\* the other, which left the card in Learning, did not.
C17_Witness ==
    /\ Called /\ config.enable_fuzzing /\ exc = "none"
    /\ NumReviews = 2 /\ draws = 1
    /\ Before.state = State_LEARNING
    /\ After.state = State_REVIEW
    /\ After.card_id = 1

(***************************************************************************)
(* SpecEdge: one review of a stored card after no time, one microsecond    *)
(* short of a day, one day and thirty days.                                *)
(***************************************************************************)

MaxEdgeReviews == 1

EdgeConfigs ==
    {DefaultWith(<<>>, <<>>, DEFAULT_MAXIMUM_INTERVAL, FALSE),
     DefaultWith(<<Minutes(1), Minutes(10)>>, <<Minutes(10), Minutes(20)>>,
                 DEFAULT_MAXIMUM_INTERVAL, FALSE)}

EdgeCards == {c \in StoredCards : c.state = State_NEW \/ (c.interval = Days(2) /\ c.step = 0)}

InitEdge == \E c \in EdgeCards : InitWith(EdgeConfigs, [i \in {1} |-> c])

ReviewEdge == ReviewUpTo(MaxEdgeReviews, "edge")

NextEdge == Construct \/ ReviewEdge

SpecEdge == InitEdge /\ [][NextEdge]_vars

\* The elapsed time is strictly less than one day.
SameDay(t) == t.days * 86400 + t.seconds < 86400

\* The retrievability of the card before the latest call at that call.
RetrievabilityBefore == _get_card_retrievability(sched, Before, last.review_interval)

\* The stability a review gives a card of the given difficulty and stability.
StabilityFrom(difficulty, stability) ==
    IF SameDay(last.review_interval)
    THEN short_term_stability(sched.w, stability, last.rating)
    ELSE next_stability(sched.w, difficulty, stability, RetrievabilityBefore, last.rating)

\* The New card of the latest call with its memory initialised, in Learning at
\* step 0.
AsLearning ==
    [Before EXCEPT !.stability = initial_stability(sched.w, last.rating),
                   !.difficulty = initial_difficulty(sched.w, last.rating),
                   !.state = State_LEARNING,
                   !.step = 0]

\* C18: for a New card review_card sets stability and difficulty from
\* initial_stability and initial_difficulty of the rating, whatever the elapsed
\* time, and goes on as for a Learning card at step 0; for any other card it
\* sets difficulty by next_difficulty, and stability by short_term_stability
\* exactly when the elapsed time is strictly less than one day, by
\* next_stability otherwise.
C18_Dispatch ==
    Called =>
       IF Before.state = State_NEW
       THEN /\ After.stability = initial_stability(sched.w, last.rating)
            /\ After.difficulty = initial_difficulty(sched.w, last.rating)
            /\ After = _determine_next_card_state(sched, config, AsLearning, last.rating).card
       ELSE /\ After.difficulty = next_difficulty(sched.w, Before.difficulty, last.rating)
            /\ After.stability = StabilityFrom(Before.difficulty, Before.stability)

\* C18's case: a card reviewed after exactly one day has the stability of
\* next_stability, which is not the one short_term_stability gives.
C18_Witness ==
    /\ Called /\ Before.state = State_REVIEW
    /\ last.review_interval = Days(1)
    /\ After.stability = next_stability(sched.w, Before.difficulty, Before.stability,
                                        RetrievabilityBefore, last.rating)
    /\ After.stability # short_term_stability(sched.w, Before.stability, last.rating)

\* C19: in one review of a card that is not New, the retrievability and the
\* new stability come from the stability and difficulty before the review, not
\* from the difficulty the same review produces, and the interval assigned on
\* entering or staying in Review comes from the stability after the update.
C19_Ordering ==
    (Called /\ Before.state # State_NEW /\ exc = "none") =>
       /\ After.stability = StabilityFrom(Before.difficulty, Before.stability)
       /\ After.state = State_REVIEW =>
             After.interval =
                _calculate_next_review_interval(sched, config, After.stability).interval

\* C19's case: the order matters.  The stability differs from the one the new
\* difficulty would give and the interval from the one the old stability
\* would give.
C19_Witness ==
    /\ Called /\ Before.state = State_REVIEW /\ exc = "none"
    /\ After.state = State_REVIEW
    /\ After.difficulty # Before.difficulty
    /\ After.stability # StabilityFrom(After.difficulty, Before.stability)
    /\ After.interval #
          _calculate_next_review_interval(sched, config, Before.stability).interval

(***************************************************************************)
(* SpecGood: a new card reviewed when due, under step sequences of up to   *)
(* three steps, long enough for a run of Goods from any state it reaches.  *)
(***************************************************************************)

MaxGoodReviews == 5

GoodConfigs ==
    {DefaultWith(<<>>, <<>>, DEFAULT_MAXIMUM_INTERVAL, FALSE),
     DefaultWith(<<Minutes(1)>>, <<Minutes(10), Minutes(20)>>,
                 DEFAULT_MAXIMUM_INTERVAL, FALSE),
     DefaultWith(<<Minutes(1), Minutes(10), Minutes(60)>>, <<Minutes(10), Minutes(20)>>,
                 DEFAULT_MAXIMUM_INTERVAL, FALSE)}

InitGood == InitWith(GoodConfigs, OneCard)

ReviewGood == ReviewUpTo(MaxGoodReviews, "due")

NextGood == Construct \/ ReviewGood

SpecGood == InitGood /\ [][NextGood]_vars

\* The length of the run of Goods that ends the history h.
RECURSIVE TrailingGoods(_)
TrailingGoods(h) ==
    IF h = <<>> \/ h[Len(h)][1] # GOOD THEN 0
    ELSE 1 + TrailingGoods(SubSeq(h, 1, Len(h) - 1))

\* max(1, len(learning_steps), len(relearning_steps))
GoodsToReview == Max(1, Max(Len(config.learning_steps), Len(config.relearning_steps)))

\* C20: from every state a card reaches, a run of that many consecutive Goods
\* has brought the card into Review, where further Goods keep it, and a review
\* rated Easy leaves the card in Review.
C20_ProgressToReview ==
    \A id \in DOMAIN cards :
       /\ TrailingGoods(hist[id]) >= GoodsToReview => cards[id].state = State_REVIEW
       /\ (hist[id] # <<>> /\ hist[id][Len(hist[id])][1] = EASY) =>
             cards[id].state = State_REVIEW

\* C20's case: a lapsed card needs the whole run.  After Easy and Again, three
\* Goods under three learning steps end in Review, the third arriving from
\* Learning.
C20_Witness ==
    /\ Called /\ exc = "none"
    /\ GoodsToReview = 3
    /\ Len(hist[1]) = 5 /\ hist[1][1][1] = EASY /\ hist[1][2][1] = AGAIN
    /\ TrailingGoods(hist[1]) = 3
    /\ Before.state = State_LEARNING
    /\ After.state = State_REVIEW

====
